---- MODULE Spec2Model ----
(***************************************************************************)
(* Matchmaking and relay engine of the anonymous chat server               *)
(* (src/server.js).  The file holds two deployed variants of the same      *)
(* server: the auto-requeue variant (lines 1-215) and the explicit-rejoin  *)
(* variant (lines 217-422).  Both are modelled; `variant` selects which    *)
(* one a behaviour runs.                                                    *)
(***************************************************************************)
EXTENDS Integers, Sequences, FiniteSets, TLC

\* ------------------------------------------------------------------ bounds
NumSockets == 3          \* connection identities issued by the transport
RelaySockets == 2        \* of these, the ones that connect under SpecRelay
MaxPool    == 2          \* cap on the length of waitingUsers
MaxTotalConnections == 2 \* cap on userStats.totalConnections
MaxTotalMessages == 1    \* cap on userStats.totalMessages
MaxPending == 1          \* cap on message handlers suspended in verifyRecaptcha
MaxVerifyCalls == 2      \* cap on the per-connection count of verifyRecaptcha calls

\* ------------------------------------------------------------- constants
MaxMessageLength == 500  \* text.length > 500

Sockets   == 1..NumSockets
NoPartner == 0           \* connectedPairs.get(id) === undefined
Variants  == {"auto", "explicit"}

\* A message text: `pre`/`post` count leading/trailing whitespace characters,
\* `body` counts the characters from the first to the last non-whitespace one.
\* kind "none" is a missing / non-string text.
Text(k, a, b, c) == [kind |-> k, pre |-> a, body |-> b, post |-> c]
NoText == Text("none", 0, 0, 0)
Texts ==
    { NoText,
      Text("string", 2, 0, 0),                    \* "  "
      Text("string", 0, 5, 0),                    \* "hello"
      Text("string", 0, MaxMessageLength + 1, 0), \* 501 characters
      Text("string", 1, MaxMessageLength, 0) }    \* " " + 500 characters
Tokens == {"", "demo-token", "tok"}

\* String.prototype.length and String.prototype.trim on a text
Length(t) == t.pre + t.body + t.post
Trim(t)   == IF t.body = 0 THEN Text(t.kind, 0, 0, 0) ELSE Text(t.kind, 0, t.body, 0)

VARIABLES
    variant,          \* which of the two server variants runs
    secretConfigured, \* RECAPTCHA_SECRET_KEY differs from the placeholder
    status,           \* per socket: "new" (not yet connected), "open", "closed"
    isVerified,       \* socket.isVerified
    waitingUsers,     \* sequence of socket ids (the id of each queue entry)
    connectedPairs,   \* socket id -> partner id, NoPartner when absent
    userStats,        \* [totalConnections, activeUsers, totalMessages]
    pending,          \* message handlers suspended at `await verifyRecaptcha`
    verifyCalls,      \* number of verifyRecaptcha invocations per socket
    out,              \* notifications emitted by the handler that just ran
    notified,         \* the pairs {a, b} both told "connected" by one handler so far
    last              \* the handler that just ran: event, socket, partner before

vars == << variant, secretConfigured, status, isVerified, waitingUsers,
           connectedPairs, userStats, pending, verifyCalls, out, notified, last >>

\* ---------------------------------------------------------- notifications
Emit(to, ev)          == [to |-> to, ev |-> ev, type |-> "", text |-> NoText]
EmitError(to, type)   == [to |-> to, ev |-> "error", type |-> type, text |-> NoText]
EmitMessage(to, text) == [to |-> to, ev |-> "message", type |-> "", text |-> text]

\* The event just handled: its name, the socket, the socket's partner and
\* whether it had a queue entry when the handler started; for a message event
\* `data` tells whether it carried a payload object and `text` is data.text.
LastMsg(op, s, p, d, t) ==
    [op |-> op, who |-> s, partner |-> p, data |-> d, text |-> t,
     waiting |-> \E i \in 1..Len(waitingUsers) : waitingUsers[i] = s]
LastWith(op, s, p, d) == LastMsg(op, s, p, d, NoText)
Last(op, s, p) == LastWith(op, s, p, "")

\* ------------------------------------------------------- utility functions
findPartner(cp, socketId) == cp[socketId]

\* removeFromWaiting with the filter inverted: keeps only the socket's entries
removeFromWaitingInverted(w, socketId) == SelectSeq(w, LAMBDA u : u = socketId)

removeFromWaiting(w, socketId) == SelectSeq(w, LAMBDA u : u # socketId)

\* findIndex without the self-exclusion: the head of the queue, whoever it is
findIndexAny(w, id) == IF Len(w) > 0 THEN 1 ELSE -1

\* findIndex scanning from the tail: the latest entry of another identity
findIndexLastNot(w, id) ==
    IF \E i \in 1..Len(w) : w[i] # id
    THEN CHOOSE i \in 1..Len(w) : w[i] # id /\ \A j \in (i+1)..Len(w) : w[j] = id
    ELSE -1

\* Array.prototype.findIndex(user => user.id !== id): 1-based, -1 when absent
findIndexNot(w, id) ==
    IF \E i \in 1..Len(w) : w[i] # id
    THEN CHOOSE i \in 1..Len(w) : w[i] # id /\ \A j \in 1..(i-1) : w[j] = id
    ELSE -1

\* Array.prototype.splice(i, 1): the array without its i-th entry
splice(w, i) == SubSeq(w, 1, i - 1) \o SubSeq(w, i + 1, Len(w))

\* ---------------------------------------------------------------- matchmaker
\* The matchmaking functions work on m = [w, cp, tc, out]: the waiting queue,
\* the pair map, userStats.totalConnections and the notifications emitted so far.
Shared == [w |-> waitingUsers, cp |-> connectedPairs,
           tc |-> userStats.totalConnections, out |-> << >>]

\* disconnectPair of the auto-requeue variant without its requeue block
disconnectPairAutoNoRequeue(m, socketId, live) ==
    LET partnerId == findPartner(m.cp, socketId) IN
    IF partnerId = NoPartner THEN m
    ELSE [m EXCEPT !.cp = [m.cp EXCEPT ![socketId] = NoPartner, ![partnerId] = NoPartner],
                   !.out = Append(m.out, Emit(partnerId, "partner-disconnected"))]

\* disconnectPair of the auto-requeue variant putting the partner at the head
\* of the queue
disconnectPairAutoRequeueFront(m, socketId, live) ==
    LET partnerId == findPartner(m.cp, socketId) IN
    IF partnerId = NoPartner THEN m
    ELSE LET cp2 == [m.cp EXCEPT ![socketId] = NoPartner, ![partnerId] = NoPartner]
             o2  == Append(m.out, Emit(partnerId, "partner-disconnected"))
         IN IF partnerId \in live
            THEN [m EXCEPT !.cp = cp2,
                           !.w = << partnerId >> \o removeFromWaiting(m.w, partnerId),
                           !.out = Append(o2, Emit(partnerId, "searching"))]
            ELSE [m EXCEPT !.cp = cp2, !.out = o2]

\* auto-requeue variant; `live` is io.sockets.sockets
disconnectPairAuto(m, socketId, live) ==
    LET partnerId == findPartner(m.cp, socketId) IN
    IF partnerId = NoPartner THEN m
    ELSE LET cp2  == [m.cp EXCEPT ![socketId] = NoPartner, ![partnerId] = NoPartner]
             out2 == Append(m.out, Emit(partnerId, "partner-disconnected"))
         IN  IF partnerId \in live
             THEN [m EXCEPT !.cp = cp2,
                            !.w = Append(removeFromWaiting(m.w, partnerId), partnerId),
                            !.out = Append(out2, Emit(partnerId, "searching"))]
             ELSE [m EXCEPT !.cp = cp2, !.out = out2]

\* explicit-rejoin variant
disconnectPairExplicit(m, socketId) ==
    LET partnerId == findPartner(m.cp, socketId) IN
    IF partnerId = NoPartner THEN m
    ELSE [m EXCEPT !.cp = [m.cp EXCEPT ![socketId] = NoPartner, ![partnerId] = NoPartner],
                   !.out = Append(m.out, Emit(partnerId, "partnerDisconnected"))]

\* the pairing branch telling only the requester that it is connected
pairWithSilentPartner(m, id, partnerIndex) ==
    LET partner == m.w[partnerIndex] IN
    [w   |-> splice(m.w, partnerIndex),
     cp  |-> [m.cp EXCEPT ![id] = partner, ![partner] = id],
     tc  |-> m.tc + 1,
     out |-> Append(m.out, Emit(id, "connected"))]

\* the pairing branch reading the partner without splicing it out of the queue
pairWithoutSplice(m, id, partnerIndex) ==
    LET partner == m.w[partnerIndex] IN
    [w   |-> m.w,
     cp  |-> [m.cp EXCEPT ![id] = partner, ![partner] = id],
     tc  |-> m.tc + 1,
     out |-> m.out \o << Emit(id, "connected"), Emit(partner, "connected") >>]

\* the pairing branch shared by findAndPairUsers and the explicit-rejoin join
pairWith(m, id, partnerIndex) ==
    LET partner == m.w[partnerIndex] IN
    [w   |-> splice(m.w, partnerIndex),
     cp  |-> [m.cp EXCEPT ![id] = partner, ![partner] = id],
     tc  |-> m.tc + 1,
     out |-> m.out \o << Emit(id, "connected"), Emit(partner, "connected") >>]

findAndPairUsers(m, id) ==
    LET partnerIndex == findIndexNot(m.w, id) IN
    IF partnerIndex # -1
    THEN pairWith(m, id, partnerIndex)
    ELSE [m EXCEPT !.w = Append(removeFromWaiting(m.w, id), id),
                   !.out = Append(m.out, Emit(id, "searching"))]

\* a join that always enqueues the caller, without looking for a partner
joinExplicitPushOnly(m, id) ==
    [m EXCEPT !.w = Append(m.w, id),
              !.out = Append(m.out, Emit(id, "searching"))]

\* body of socket.on("join") of the explicit-rejoin variant
joinExplicit(m, id) ==
    IF Len(m.w) > 0
    THEN LET partnerIndex == findIndexNot(m.w, id) IN
         IF partnerIndex # -1
         THEN pairWith(m, id, partnerIndex)
         ELSE [m EXCEPT !.w = Append(m.w, id),
                        !.out = Append(m.out, Emit(id, "searching"))]
    ELSE [m EXCEPT !.w = Append(m.w, id),
                   !.out = Append(m.out, Emit(id, "searching"))]

\* --------------------------------------------------------------------- relay
\* verifyRecaptcha returns true without any network call.  Its promise is then
\* already resolved and the handler resumes in a microtask, before the event
\* loop delivers another socket event; otherwise the handler stays suspended
\* while other handlers run (pending).
verifyIsImmediate(token, configured) ==
    token = "" \/ token = "demo-token" \/ ~configured

\* the validation sending its error notifications to the partner
messageTailErrorsToPartner(s, text, partnerId) ==
    IF text.kind # "string" \/ Length(text) = 0 \/ Length(Trim(text)) = 0
    THEN [out |-> << EmitError(partnerId, "invalid_message") >>, sent |-> 0]
    ELSE IF Length(text) > MaxMessageLength
    THEN [out |-> << EmitError(partnerId, "message_too_long") >>, sent |-> 0]
    ELSE [out |-> << EmitMessage(partnerId, Trim(text)) >>, sent |-> 1]

\* the message handler after the captcha logic: validation and forwarding;
\* yields the notifications and the increment of userStats.totalMessages
messageTail(s, text, partnerId) ==
    IF text.kind # "string" \/ Length(text) = 0 \/ Length(Trim(text)) = 0
    THEN [out |-> << EmitError(s, "invalid_message") >>, sent |-> 0]
    ELSE IF Length(text) > MaxMessageLength
    THEN [out |-> << EmitError(s, "message_too_long") >>, sent |-> 0]
    ELSE [out |-> << EmitMessage(partnerId, Trim(text)) >>, sent |-> 1]

Open == { s \in Sockets : status[s] = "open" }

\* ------------------------------------------------------------------- initial
\* The server right after start-up.  Identities above n belong to connections
\* that came and went before without sending any event.
InitWith(n, keys) ==
    /\ variant \in Variants
    /\ secretConfigured \in keys
    /\ status = [s \in Sockets |-> IF s <= n THEN "new" ELSE "closed"]
    /\ isVerified = [s \in Sockets |-> FALSE]
    /\ waitingUsers = << >>
    /\ connectedPairs = [s \in Sockets |-> NoPartner]
    /\ userStats = [totalConnections |-> 0, activeUsers |-> 0, totalMessages |-> 0]
    /\ pending = << >>
    /\ verifyCalls = [s \in Sockets |-> 0]
    /\ out = << >>
    /\ notified = {}
    /\ last = Last("init", NoPartner, NoPartner)

\* The lifecycle handlers never read the secret key: Init leaves it at the
\* placeholder of line 20; InitRelay takes both settings.
Init      == InitWith(NumSockets, {FALSE})
InitRelay == InitWith(RelaySockets, BOOLEAN)

\* the pairs whose two members are both sent "connected" in m.out
Connected(m) ==
    { {a, m.cp[a]} : a \in { x \in Sockets :
          /\ m.cp[x] # NoPartner
          /\ \E i, j \in 1..Len(m.out) :
                /\ m.out[i] = Emit(x, "connected")
                /\ m.out[j] = Emit(m.cp[x], "connected") } }

\* what a matchmaking handler writes back from its result m
Commit(m) ==
    /\ m.tc <= MaxTotalConnections
    /\ notified' = notified \cup Connected(m)
    /\ waitingUsers' = m.w
    /\ connectedPairs' = m.cp
    /\ userStats' = [userStats EXCEPT !.totalConnections = m.tc]
    /\ out' = m.out

Env == << variant, secretConfigured >>

\* ------------------------------------------------------------------ handlers
\* io.on("connection")
Connection(s) ==
    /\ status[s] = "new"
    /\ status' = [status EXCEPT ![s] = "open"]
    /\ isVerified' = [isVerified EXCEPT ![s] = FALSE]
    /\ userStats' = [userStats EXCEPT !.activeUsers = @ + 1]
    /\ out' = << >>
    /\ last' = Last("connection", s, findPartner(connectedPairs, s))
    /\ UNCHANGED << Env, notified, waitingUsers, connectedPairs, pending, verifyCalls >>

AutoJoin(s) ==
    /\ variant = "auto" /\ status[s] = "open"
    /\ Commit(findAndPairUsers(Shared, s))
    /\ last' = Last("join", s, findPartner(connectedPairs, s))
    /\ UNCHANGED << Env, status, isVerified, pending, verifyCalls >>

AutoNext(s) ==
    /\ variant = "auto" /\ status[s] = "open"
    /\ Commit(findAndPairUsers(disconnectPairAuto(Shared, s, Open), s))
    /\ last' = Last("next", s, findPartner(connectedPairs, s))
    /\ UNCHANGED << Env, status, isVerified, pending, verifyCalls >>

AutoReport(s) ==
    /\ variant = "auto" /\ status[s] = "open"
    /\ Commit(findAndPairUsers(disconnectPairAuto(Shared, s, Open), s))
    /\ last' = Last("report", s, findPartner(connectedPairs, s))
    /\ UNCHANGED << Env, status, isVerified, pending, verifyCalls >>

AutoDisconnect(s) ==
    /\ variant = "auto" /\ status[s] = "open"
    /\ status' = [status EXCEPT ![s] = "closed"]
    /\ LET m == disconnectPairAuto([Shared EXCEPT !.w = removeFromWaiting(@, s)],
                                   s, Open \ {s})
       IN  /\ waitingUsers' = m.w
           /\ connectedPairs' = m.cp
           /\ out' = m.out
    /\ userStats' = [userStats EXCEPT !.activeUsers = @ - 1]
    /\ last' = Last("disconnect", s, findPartner(connectedPairs, s))
    /\ UNCHANGED << Env, notified, isVerified, pending, verifyCalls >>

ExplJoin(s) ==
    /\ variant = "explicit" /\ status[s] = "open"
    /\ Len(joinExplicit(Shared, s).w) <= MaxPool
    /\ Commit(joinExplicit(Shared, s))
    /\ last' = Last("join", s, findPartner(connectedPairs, s))
    /\ UNCHANGED << Env, status, isVerified, pending, verifyCalls >>

\* shared body of socket.on("next") and socket.on("skip")
nextExplicit(m, id) ==
    LET m2 == disconnectPairExplicit(m, id) IN
    [m2 EXCEPT !.w = removeFromWaiting(@, id)]

ExplNext(s) ==
    /\ variant = "explicit" /\ status[s] = "open"
    /\ Commit(nextExplicit(Shared, s))
    /\ last' = Last("next", s, findPartner(connectedPairs, s))
    /\ UNCHANGED << Env, status, isVerified, pending, verifyCalls >>

ExplSkip(s) ==
    /\ variant = "explicit" /\ status[s] = "open"
    /\ Commit(nextExplicit(Shared, s))
    /\ last' = Last("skip", s, findPartner(connectedPairs, s))
    /\ UNCHANGED << Env, status, isVerified, pending, verifyCalls >>

ExplReport(s) ==
    /\ variant = "explicit" /\ status[s] = "open"
    /\ Commit(disconnectPairExplicit(Shared, s))
    /\ last' = Last("report", s, findPartner(connectedPairs, s))
    /\ UNCHANGED << Env, status, isVerified, pending, verifyCalls >>

ExplDisconnect(s) ==
    /\ variant = "explicit" /\ status[s] = "open"
    /\ status' = [status EXCEPT ![s] = "closed"]
    /\ LET m == disconnectPairExplicit([Shared EXCEPT !.w = removeFromWaiting(@, s)], s)
       IN  /\ waitingUsers' = m.w
           /\ connectedPairs' = m.cp
           /\ out' = m.out
    /\ userStats' = [userStats EXCEPT !.activeUsers = @ - 1]
    /\ last' = Last("disconnect", s, findPartner(connectedPairs, s))
    /\ UNCHANGED << Env, notified, isVerified, pending, verifyCalls >>

Matchmaking == << waitingUsers, connectedPairs >>

\* the message handler verifying every message, whatever socket.isVerified is
messageHeadAlwaysVerify(partnerId, verified, immediate) ==
    IF partnerId = NoPartner THEN "no_partner"
    ELSE IF immediate THEN "verify_relay"
    ELSE "await"

\* the message handler with the captcha logic placed before the partner check
messageHeadCaptchaFirst(partnerId, verified, immediate) ==
    IF ~verified THEN (IF immediate THEN "verify_relay" ELSE "await")
    ELSE IF partnerId = NoPartner THEN "no_partner"
    ELSE "relay"

\* the message handler up to the validation of the text: which way it takes,
\* given the partner looked up, socket.isVerified and whether verifyRecaptcha
\* answers without a network call
messageHead(partnerId, verified, immediate) ==
    IF partnerId = NoPartner THEN "no_partner"
    ELSE IF verified THEN "relay"
    ELSE IF immediate THEN "verify_relay"
    ELSE "await"

\* socket.on("message"), from the event to its return or to the await of a
\* verifyRecaptcha call that goes to the network
Message(s) ==
    /\ status[s] = "open"
    /\ \/ \* data is undefined: the destructuring throws, caught by the handler
          /\ last' = LastWith("message", s, findPartner(connectedPairs, s), "undefined")
          /\ out' = << EmitError(s, "server_error") >>
          /\ UNCHANGED << isVerified, userStats, pending, verifyCalls >>
       \/ \E text \in Texts, captcha \in Tokens :
            LET partnerId == findPartner(connectedPairs, s)
                stage == messageHead(partnerId, isVerified[s],
                                     verifyIsImmediate(captcha, secretConfigured))
                tail == messageTail(s, text, partnerId)
                finish ==
                    /\ userStats.totalMessages + tail.sent <= MaxTotalMessages
                    /\ out' = tail.out
                    /\ userStats' = [userStats EXCEPT !.totalMessages = @ + tail.sent]
                verify ==
                    /\ verifyCalls[s] < MaxVerifyCalls
                    /\ verifyCalls' = [verifyCalls EXCEPT ![s] = @ + 1]
            IN  /\ last' = LastMsg("message", s, partnerId, "object", text)
                /\ CASE stage = "no_partner" ->
                          /\ out' = << EmitError(s, "no_partner") >>
                          /\ UNCHANGED << isVerified, userStats, pending, verifyCalls >>
                     [] stage = "relay" ->
                          /\ finish
                          /\ UNCHANGED << isVerified, pending, verifyCalls >>
                     [] stage = "verify_relay" ->
                          /\ verify
                          /\ isVerified' = [isVerified EXCEPT ![s] = TRUE]
                          /\ finish
                          /\ UNCHANGED pending
                     [] stage = "await" ->
                          /\ verify
                          /\ Len(pending) < MaxPending
                          /\ pending' = Append(pending,
                                [id |-> s, text |-> text, partnerId |-> partnerId])
                          /\ out' = << >>
                          /\ UNCHANGED << isVerified, userStats >>
    /\ UNCHANGED << Env, notified, status, Matchmaking >>

\* the rest of a suspended message handler, once the verification request
\* has answered (ok) or failed (~ok)
VerifyReturn(i, ok) ==
    /\ i \in 1..Len(pending)
    /\ LET p == pending[i]
           tail == messageTail(p.id, p.text, p.partnerId)
       IN  /\ pending' = splice(pending, i)
           /\ last' = LastMsg("verified", p.id, p.partnerId, "object", p.text)
           /\ IF ~ok
              THEN /\ out' = << EmitError(p.id, "captcha_failed") >>
                   /\ UNCHANGED << isVerified, userStats >>
              ELSE /\ isVerified' = [isVerified EXCEPT ![p.id] = TRUE]
                   /\ userStats.totalMessages + tail.sent <= MaxTotalMessages
                   /\ out' = tail.out
                   /\ userStats' = [userStats EXCEPT !.totalMessages = @ + tail.sent]
    /\ UNCHANGED << Env, notified, status, Matchmaking, verifyCalls >>

\* shared body of socket.on("typing") and socket.on("stopTyping")
relayTyping(cp, s, ev) ==
    LET partnerId == findPartner(cp, s) IN
    IF partnerId # NoPartner THEN << Emit(partnerId, ev) >> ELSE << >>

Typing(s) ==
    /\ status[s] = "open"
    /\ out' = relayTyping(connectedPairs, s, "typing")
    /\ last' = Last("typing", s, findPartner(connectedPairs, s))
    /\ UNCHANGED << Env, notified, status, isVerified, Matchmaking, userStats, pending, verifyCalls >>

StopTyping(s) ==
    /\ status[s] = "open"
    /\ out' = relayTyping(connectedPairs, s, "stopTyping")
    /\ last' = Last("stopTyping", s, findPartner(connectedPairs, s))
    /\ UNCHANGED << Env, notified, status, isVerified, Matchmaking, userStats, pending, verifyCalls >>

Ping(s) ==
    /\ status[s] = "open"
    /\ out' = << Emit(s, "pong") >>
    /\ last' = Last("ping", s, findPartner(connectedPairs, s))
    /\ UNCHANGED << Env, notified, status, isVerified, Matchmaking, userStats, pending, verifyCalls >>

\* the connection lifecycle handlers: everything that writes waitingUsers or
\* connectedPairs
Next ==
    \/ \E s \in Sockets : Connection(s)
    \/ \E s \in Sockets : AutoJoin(s)
    \/ \E s \in Sockets : AutoNext(s)
    \/ \E s \in Sockets : AutoReport(s)
    \/ \E s \in Sockets : AutoDisconnect(s)
    \/ \E s \in Sockets : ExplJoin(s)
    \/ \E s \in Sockets : ExplNext(s)
    \/ \E s \in Sockets : ExplSkip(s)
    \/ \E s \in Sockets : ExplReport(s)
    \/ \E s \in Sockets : ExplDisconnect(s)

\* every handler of the server, the relay handlers included
NextRelay ==
    \/ Next
    \/ \E s \in Sockets : Message(s)
    \/ \E i \in 1..MaxPending, ok \in BOOLEAN : VerifyReturn(i, ok)
    \/ \E s \in Sockets : Typing(s)
    \/ \E s \in Sockets : StopTyping(s)
    \/ \E s \in Sockets : Ping(s)

\* Spec: the matchmaking handlers over NumSockets connections.
\* SpecRelay: all handlers over RelaySockets connections.
Spec      == Init /\ [][Next]_vars
SpecRelay == InitRelay /\ [][NextRelay]_vars

TypeOK ==
    /\ variant \in Variants
    /\ status \in [Sockets -> {"new", "open", "closed"}]
    /\ connectedPairs \in [Sockets -> Sockets \cup {NoPartner}]
    /\ \A i \in 1..Len(waitingUsers) : waitingUsers[i] \in Open
    /\ Len(waitingUsers) <= MaxPool

\* ------------------------------------------------------------------ helpers
InPool(w, id) == \E i \in 1..Len(w) : w[i] = id
Count(w, id)  == Len(SelectSeq(w, LAMBDA u : u = id))
Sent(o, to, ev) == \E i \in 1..Len(o) : o[i].to = to /\ o[i].ev = ev
SentPartnerDisconnected(o, to) ==
    Sent(o, to, "partner-disconnected") \/ Sent(o, to, "partnerDisconnected")
Paired(cp, a) == cp[a] # NoPartner
Idle(w, cp, a) == ~InPool(w, a) /\ ~Paired(cp, a)

\* ------------------------------------------------------------------- claims

\* C1: after every join, next/skip, report or disconnect handler, in any
\* sequence of such events, connectedPairs is symmetric: whenever it maps A to
\* B it also maps B to A.
C1_Symmetric ==
    \A a \in Sockets :
        Paired(connectedPairs, a) => connectedPairs[connectedPairs[a]] = a

\* C2: in every reachable state no connection is paired with itself, also when
\* the requesting connection's own entry is present in the waiting pool.
C2_NoSelfPair ==
    \A a \in Sockets : connectedPairs[a] # a

\* C2 witness: a join has just paired a requester whose own entry was (and
\* still is) in the waiting pool.
C2_Witness ==
    /\ last.op = "join"
    /\ Sent(out, last.who, "connected")
    /\ InPool(waitingUsers, last.who)
    /\ Paired(connectedPairs, last.who)

\* C3: after a handler completes no connection identity is both an entry of
\* waitingUsers and a key of connectedPairs.
C3_PoolTableDisjoint ==
    \A a \in Sockets : ~(InPool(waitingUsers, a) /\ Paired(connectedPairs, a))

\* C4: each connection identity occurs at most once in waitingUsers.
C4_NoDuplicates ==
    \A a \in Sockets : Count(waitingUsers, a) <= 1

NoPairs == [s \in Sockets |-> NoPartner]
JoinBy(l, a) == l.op = "join" /\ l.who = a

\* C5: from an empty pool and an empty table, A's join puts A in the pool and
\* sends A "searching"; B's join right after removes A from the pool, maps A
\* to B and B to A, sends "connected" to both and adds exactly 1 to
\* userStats.totalConnections.
C5_TwoJoins ==
    [][ \A a, b \in Sockets :
          /\ ( /\ waitingUsers = << >> /\ connectedPairs = NoPairs
               /\ JoinBy(last', a) )
             => /\ waitingUsers' = << a >>
                /\ connectedPairs' = NoPairs
                /\ out' = << Emit(a, "searching") >>
                /\ userStats' = userStats
          /\ ( /\ JoinBy(last, a) /\ out = << Emit(a, "searching") >>
               /\ waitingUsers = << a >> /\ connectedPairs = NoPairs
               /\ JoinBy(last', b) /\ b # a )
             => /\ waitingUsers' = << >>
                /\ connectedPairs' = [NoPairs EXCEPT ![a] = b, ![b] = a]
                /\ Sent(out', a, "connected") /\ Sent(out', b, "connected")
                /\ Len(out') = 2
                /\ userStats'.totalConnections = userStats.totalConnections + 1
      ]_vars

\* C5 witness: the first pairing of the run has just been formed by a join.
C5_Witness ==
    /\ last.op = "join" /\ last.partner = NoPartner
    /\ userStats.totalConnections = 1
    /\ waitingUsers = << >>
    /\ \E a \in Sockets :
          /\ a # last.who
          /\ connectedPairs = [NoPairs EXCEPT ![a] = last.who, ![last.who] = a]
          /\ Sent(out, a, "connected") /\ Sent(out, last.who, "connected")

\* C6: given a symmetric pair (A,B), when A's next/skip handler completes, B
\* has been sent the partner-disconnected notification, the A-B pairing is
\* dissolved in both directions, B is in the pool having been sent
\* "searching" or idle, and A is paired with a connection other than A, or in
\* the pool exactly once having been sent "searching", or idle.
C6_SkipOutcome ==
    [][ \A a, b \in Sockets :
          ( /\ a # b /\ connectedPairs[a] = b /\ connectedPairs[b] = a
            /\ last'.op \in {"next", "skip"} /\ last'.who = a )
          => /\ SentPartnerDisconnected(out', b)
             /\ connectedPairs'[a] # b /\ connectedPairs'[b] # a
             /\ \/ InPool(waitingUsers', b) /\ Sent(out', b, "searching")
                \/ Idle(waitingUsers', connectedPairs', b)
             /\ \/ Paired(connectedPairs', a) /\ connectedPairs'[a] # a
                \/ Count(waitingUsers', a) = 1 /\ Sent(out', a, "searching")
                \/ Idle(waitingUsers', connectedPairs', a)
      ]_vars

\* C7: when a paired connection A disconnects, after the handler neither A nor
\* its partner B has a table entry, A is not in the pool, B has been sent
\* partner-disconnected and "searching", and B is in the pool exactly once.
C7_DisconnectRequeues ==
    [][ \A a, b \in Sockets :
          ( /\ connectedPairs[a] = b
            /\ last'.op = "disconnect" /\ last'.who = a )
          => /\ ~Paired(connectedPairs', a) /\ ~Paired(connectedPairs', b)
             /\ ~InPool(waitingUsers', a)
             /\ SentPartnerDisconnected(out', b) /\ Sent(out', b, "searching")
             /\ Count(waitingUsers', b) = 1
      ]_vars

\* C8: a report from A while paired with B leaves neither A nor B in the table
\* or in the pool, and afterwards each of them stays idle over every handler
\* other than its own join.
C8_ReportLeavesIdle ==
    [][ \A a, b \in Sockets :
          /\ ( /\ connectedPairs[a] = b
               /\ last'.op = "report" /\ last'.who = a )
             => /\ Idle(waitingUsers', connectedPairs', a)
                /\ Idle(waitingUsers', connectedPairs', b)
          /\ \A c \in {a, b} :
               ( /\ last.op = "report" /\ last.who = a /\ last.partner = b
                 /\ Idle(waitingUsers, connectedPairs, c)
                 /\ ~JoinBy(last', c) )
               => Idle(waitingUsers', connectedPairs', c)
      ]_vars

Relayed == {"message", "typing", "stopTyping"}

\* C9: a message, typing or stopTyping signal of connection S is forwarded to
\* X only if connectedPairs maps S to X at the moment of forwarding, also when
\* other events are handled while S's verification check is in flight.
C9_ForwardOnlyToPartner ==
    \A i \in 1..Len(out) :
        out[i].ev \in Relayed => connectedPairs[last.who] = out[i].to

\* C10: a message event from a connection without a table entry ends with a
\* no_partner error sent to that connection only: verifyRecaptcha is not
\* invoked, the verified flag is unchanged, nothing is forwarded and
\* userStats.totalMessages is unchanged, whatever the flag, text and token.
C10_UnpairedMessage ==
    [][ \A s \in Sockets :
          ( /\ ~Paired(connectedPairs, s)
            /\ last'.op = "message" /\ last'.who = s /\ last'.data = "object" )
          => /\ out' = << EmitError(s, "no_partner") >>
             /\ verifyCalls' = verifyCalls
             /\ pending' = pending
             /\ isVerified' = isVerified
             /\ userStats' = userStats
      ]_vars

\* C10 witness: a connection that is verified and no longer paired has just
\* sent a message and got no_partner.
C10_Witness ==
    /\ last.op = "message" /\ last.data = "object"
    /\ ~Paired(connectedPairs, last.who)
    /\ isVerified[last.who]
    /\ out = << EmitError(last.who, "no_partner") >>

MessageBy(l, s) == l.op = "message" /\ l.who = s /\ l.data = "object"

\* C12: for a paired, verified connection the message handler answers
\* message_too_long exactly when the trimmed text is longer than 500
\* characters; every text whose trimmed form is non-empty and at most 500
\* long is forwarded trimmed to the partner and adds one to
\* userStats.totalMessages.
C12_TooLongIffTrimmed ==
    [][ \A s \in Sockets :
          ( /\ isVerified[s] /\ Paired(connectedPairs, s)
            /\ MessageBy(last', s) )
          => LET t == last'.text
                 trimmed == Trim(t)
                 long == t.kind = "string" /\ Length(trimmed) > MaxMessageLength
                 fits == /\ t.kind = "string" /\ Length(trimmed) > 0
                         /\ Length(trimmed) <= MaxMessageLength
             IN  /\ (out' = << EmitError(s, "message_too_long") >>) <=> long
                 /\ fits => /\ out' = << EmitMessage(connectedPairs[s], trimmed) >>
                            /\ userStats'.totalMessages = userStats.totalMessages + 1
      ]_vars

\* C13: when a connection that is in the pool and not paired disconnects, its
\* entry is removed and nothing else changes: the other entries and their
\* order, the table and the pairing and message counters stay, and no
\* notification is sent.
C13_WaitingDisconnect ==
    [][ \A s \in Sockets :
          ( /\ InPool(waitingUsers, s) /\ ~Paired(connectedPairs, s)
            /\ last'.op = "disconnect" /\ last'.who = s )
          => /\ waitingUsers' = SelectSeq(waitingUsers, LAMBDA u : u # s)
             /\ connectedPairs' = connectedPairs
             /\ userStats'.totalConnections = userStats.totalConnections
             /\ userStats'.totalMessages = userStats.totalMessages
             /\ out' = << >>
      ]_vars

\* C13 witness: a waiting, unpaired connection has just disconnected and
\* another connection is still waiting.
C13_Witness ==
    /\ last.op = "disconnect" /\ last.waiting /\ last.partner = NoPartner
    /\ Len(waitingUsers) >= 1
    /\ out = << >>

\* C14: once the disconnect of X has been handled, X is not an entry of the
\* pool and the table has no entry with X as key or as partner value, in that
\* state and in every later one.
C14_NoDangling ==
    \A x \in Sockets :
        status[x] = "closed"
        => /\ ~InPool(waitingUsers, x)
           /\ ~Paired(connectedPairs, x)
           /\ \A a \in Sockets : connectedPairs[a] # x

\* the queue that the pairing request of a handler scans: the queue as the
\* handler finds it for join; for next and report of the auto-requeue variant
\* the queue after disconnectPair has requeued the old partner
Scanned(op, c) ==
    IF op = "join" THEN waitingUsers
    ELSE disconnectPairAuto(Shared, c, Open).w

PairingOps == {"join", "next", "report"}

\* C15: whenever a pairing request of connection c forms a pair, the partner
\* is the earliest-enqueued entry of another identity: no entry of an identity
\* other than c stands before it in the queue (entries are appended on
\* enqueue and removals keep the order, so queue order is enqueue order).
C15_Fifo ==
    [][ \A c \in Sockets :
          ( /\ last'.op \in PairingOps /\ last'.who = c
            /\ Sent(out', c, "connected") )
          => LET q == Scanned(last'.op, c)
                 p == connectedPairs'[c]
             IN  \E i \in 1..Len(q) :
                    /\ q[i] = p /\ p # c
                    /\ \A j \in 1..(i-1) : q[j] = c
                    /\ waitingUsers' = SubSeq(q, 1, i-1) \o SubSeq(q, i+1, Len(q))
      ]_vars

\* C15 witness: a request has just been paired while a later entry of another
\* identity was waiting too, and that entry is still in the queue.
C15_Witness ==
    /\ last.op \in PairingOps
    /\ Sent(out, last.who, "connected")
    /\ \E i \in 1..Len(waitingUsers) :
          waitingUsers[i] \notin {last.who, connectedPairs[last.who]}

\* C16: whenever a message of S is forwarded to X, "connected" for a pairing
\* of S with X has been sent to both S and X by an earlier handler.
C16_NotifiedBeforeRelay ==
    \A i \in 1..Len(out) :
        out[i].ev = "message" => {last.who, out[i].to} \in notified

\* C16 witness: a message has just been forwarded, after its verification
\* request answered.
C16_Witness ==
    /\ last.op = "verified"
    /\ Len(out) = 1 /\ out[1].ev = "message"
    /\ {last.who, out[1].to} \in notified

RelayOps == {"message", "verified", "typing", "stopTyping"}

\* C17: the message handler in each of its outcomes and the typing/stopTyping
\* handlers leave waitingUsers and connectedPairs unchanged; an error
\* notification goes only to the originating connection; typing/stopTyping of
\* an unpaired connection sends nothing.
C17_RelayFrame ==
    [][ last'.op \in RelayOps
        => /\ waitingUsers' = waitingUsers
           /\ connectedPairs' = connectedPairs
           /\ \A i \in 1..Len(out') :
                 out'[i].ev = "error" => out'[i].to = last'.who
           /\ ( /\ last'.op \in {"typing", "stopTyping"}
                /\ ~Paired(connectedPairs, last'.who) )
              => out' = << >>
      ]_vars

\* C17 witness: a paired connection has just been answered invalid_message
\* while the pair and a queue entry exist.
C17_Witness ==
    /\ last.op \in {"message", "verified"}
    /\ out = << EmitError(last.who, "invalid_message") >>
    /\ Paired(connectedPairs, last.who)
    /\ Len(waitingUsers) >= 1

Waiting(w, cp, a) == InPool(w, a) /\ ~Paired(cp, a)

\* what C19 says of a disconnect handled by the auto-requeue variant: no
\* table entry is added, and a live partner is appended to the queue
\* unpaired, behind every connection already waiting
C19_Requeue(a) ==
    /\ \A s \in Sockets :
          Paired(connectedPairs', s) => connectedPairs'[s] = connectedPairs[s]
    /\ \A b \in Open \ {a} :
          connectedPairs[a] = b
          => /\ Len(waitingUsers') >= 1
             /\ waitingUsers'[Len(waitingUsers')] = b
             /\ Count(waitingUsers', b) = 1
             /\ ~Paired(connectedPairs', b)
             /\ \A c \in Sockets \ {a, b} :
                   Waiting(waitingUsers, connectedPairs, c)
                   => Waiting(waitingUsers', connectedPairs', c)

\* C19 as claimed: ... and two distinct connections waiting unpaired both
\* stay in the pool unpaired over every handler other than a join, next or
\* report.
C19_StayUntilPairingOp ==
    [][ variant = "auto"
        => /\ last'.op = "disconnect" => C19_Requeue(last'.who)
           /\ \A b, c \in Sockets :
                ( /\ b # c
                  /\ Waiting(waitingUsers, connectedPairs, b)
                  /\ Waiting(waitingUsers, connectedPairs, c)
                  /\ last'.op \notin PairingOps )
                => /\ Waiting(waitingUsers', connectedPairs', b)
                   /\ Waiting(waitingUsers', connectedPairs', c)
      ]_vars

\* C19 as amended: ... over every handler other than a join, next or report
\* and other than the disconnect of one of the two.
C19_StayWhileConnected ==
    [][ variant = "auto"
        => /\ last'.op = "disconnect" => C19_Requeue(last'.who)
           /\ \A b, c \in Sockets :
                ( /\ b # c
                  /\ Waiting(waitingUsers, connectedPairs, b)
                  /\ Waiting(waitingUsers, connectedPairs, c)
                  /\ last'.op \notin PairingOps
                  /\ ~(last'.op = "disconnect" /\ last'.who \in {b, c}) )
                => /\ Waiting(waitingUsers', connectedPairs', b)
                   /\ Waiting(waitingUsers', connectedPairs', c)
      ]_vars

\* C19 witness: a disconnect has just requeued the partner behind another
\* waiting connection, and both are unpaired.
C19_Witness ==
    /\ variant = "auto" /\ last.op = "disconnect"
    /\ last.partner # NoPartner
    /\ Len(waitingUsers) = 2
    /\ waitingUsers[2] = last.partner /\ waitingUsers[1] # last.partner
    /\ ~Paired(connectedPairs, waitingUsers[1])
    /\ ~Paired(connectedPairs, waitingUsers[2])

\* C20: explicit-rejoin variant: all entries of waitingUsers carry the same
\* connection identity.
C20_OneIdentityInPool ==
    variant = "explicit"
    => \A i, j \in 1..Len(waitingUsers) : waitingUsers[i] = waitingUsers[j]

\* C20 witness: a second connection has just joined while another one was
\* waiting: it was paired, not enqueued.
C20_Witness ==
    /\ variant = "explicit" /\ last.op = "join"
    /\ Sent(out, last.who, "connected")
    /\ userStats.totalConnections = 2
    /\ Len(waitingUsers) >= 1

====
